---- MODULE Spec2Model ----
(***************************************************************************)
(* PL011 UART driver (src/src/pl011.rs) together with the spin lock and    *)
(* the bare-metal test that shares the single Uart between a cooperative   *)
(* task and the interrupt handler (src/tests/test.rs).                     *)
(*                                                                         *)
(* Two execution contexts run on the CPU: the task (it_works) and the      *)
(* interrupt handler, which preempts the task at any instruction boundary  *)
(* and runs to completion before the task continues.  The hardware (FIFO   *)
(* drain, byte arrival) runs concurrently with both.  A second user of     *)
(* Mutex::lock ("other") exercises the lock from another context.          *)
(***************************************************************************)
EXTENDS Integers, Sequences, FiniteSets, TLC

VARIABLES
    pc,           \* pc[p]: position of each lock() user in its code
    inner,        \* Mutex.inner (AtomicBool)
    guards,       \* lock() users that currently own a live MutexGuard
    uart_present, \* UART static holds Some(uart)
    irq_registered, \* the closure calling handle_interrupt is registered
    executor,     \* "spin": re-polls in a busy loop; "wake": re-polls when woken
    data,         \* WriteFuture.data
    index,        \* WriteFuture.index
    result,       \* value carried by Poll::Ready, -1 before
    waker,        \* Uart.waker slot: NoWaker or the registered waker
    woken,        \* the task's waker has been invoked since the last poll
    irq_conut,    \* Uart.irq_conut
    irq_calls,    \* number of handle_interrupt invocations started
    hpc,          \* position of the interrupt context
    txlevel,      \* bytes held in the hardware transmit FIFO
    tx_overrun,   \* a data-register write hit a full transmit FIFO
    rxfifo,       \* bytes held in the hardware receive FIFO
    rx_arrived,   \* bytes that arrived on the line so far
    irq_pending,  \* the peripheral's IRQ line is asserted
    regs,         \* current value of the configuration registers
    wlog,         \* register writes of init, in program order
    init_args,    \* <<clk_rate, baud_rate>> passed to init, <<0, 0>> before
    dr_writes,    \* values written to uartdr, in program order
    icr_writes,   \* values written to uarticr, in program order
    last_rx       \* outcome of the last receive call

vars == <<pc, inner, guards, uart_present, irq_registered, executor, data,
          index, result, waker, woken, irq_conut, irq_calls, hpc,
          txlevel, tx_overrun, rxfifo, rx_arrived, irq_pending, regs, wlog,
          init_args, dr_writes, icr_writes, last_rx>>

----------------------------------------------------------------------------
(* Bounds of the model *)

MaxLen == 3

FifoCap == 2

MaxRx == 1

ByteVals == {0, 255}

\* the k-th byte the remote end sends
RxStream(k) == 256 - k

InitArgs == {<<100000000, 115200>>, <<115200, 100000000>>}

\* clocks and baud rates for the divisor arithmetic; the pairs kept are those
\* for which every intermediate of init stays below 2^31, where the u32
\* operations of the code are exact
DivClocks == {100000000, 48000000, 24000000, 50000000, 7372800, 115200}

DivBauds == {9600, 115200, 921600, 100000000}

DivArgs ==
    {a \in DivClocks \X DivBauds : (a[1] % (16 * a[2])) <= 33554431}

Executors == {"spin", "wake"}

Lockers == {"task", "other"}

----------------------------------------------------------------------------
(* Program constants *)

\* u32::MAX as its <<high, low>> 16-bit halves
U32_MAX == <<65535, 65535>>

CR_DISABLE == 0

CR_ENABLE == 769

IFLS_LEVEL == 32

IMSC_RX_TX == 48

LCRH_8N1_FIFO == 112

RXFE_BIT == 4

TXFF_BIT == 5

RXFF_BIT == 6

TXFE_BIT == 7

RXIM_BIT == 4

TXIM_BIT == 5

NoWaker == "none"

TaskWaker == "task_waker"

NoResult == -1

NoReceive == [called |-> FALSE, read_dr |-> FALSE, val |-> 0]

----------------------------------------------------------------------------
(* Pure helpers *)

RECURSIVE Pow2(_)
Pow2(n) == IF n = 0 THEN 1 ELSE 2 * Pow2(n - 1)

BitSet(v, n) == (v \div Pow2(n)) % 2 = 1

Buffers == UNION {[1..n -> ByteVals] : n \in 0..MaxLen}

\* wake through a reference that leaves the registration in the slot
waker_after_wake_kept(slot) == slot

\* AtomicWaker::wake takes the registration out of the slot
waker_after_wake(slot) == NoWaker

\* AtomicWaker::register stores the new waker over whatever the slot holds
waker_after_register(slot, w) == w

\* value read from the flag register
uartfr ==
    (IF rxfifo = <<>> THEN Pow2(RXFE_BIT) ELSE 0)
  + (IF txlevel >= FifoCap THEN Pow2(TXFF_BIT) ELSE 0)
  + (IF Len(rxfifo) >= FifoCap THEN Pow2(RXFF_BIT) ELSE 0)
  + (IF txlevel = 0 THEN Pow2(TXFE_BIT) ELSE 0)

\* init with the peripheral enabled before line control is programmed
InitWrites_lcrh_last(clk_rate, baud_rate) ==
    LET div == 16 * baud_rate
        integer_part == clk_rate \div div
        fraction_part == (((clk_rate % div) * 64) \div div) % 256
    IN << <<"uartcr", CR_DISABLE>>,
          <<"uartibrd", integer_part>>,
          <<"uartfbrd", fraction_part>>,
          <<"uartifls", IFLS_LEVEL>>,
          <<"uartimsc", IMSC_RX_TX>>,
          <<"uartcr", CR_ENABLE>>,
          <<"uartlcrh", LCRH_8N1_FIFO>> >>

\* init with the enable written before the FIFO level is programmed
InitWrites_enable_early(clk_rate, baud_rate) ==
    LET div == 16 * baud_rate
        integer_part == clk_rate \div div
        fraction_part == (((clk_rate % div) * 64) \div div) % 256
    IN << <<"uartcr", CR_DISABLE>>,
          <<"uartibrd", integer_part>>,
          <<"uartfbrd", fraction_part>>,
          <<"uartcr", CR_ENABLE>>,
          <<"uartifls", IFLS_LEVEL>>,
          <<"uartimsc", IMSC_RX_TX>>,
          <<"uartlcrh", LCRH_8N1_FIFO>> >>

\* register writes performed by init, in program order
InitWrites(clk_rate, baud_rate) ==
    LET div == 16 * baud_rate
        integer_part == clk_rate \div div
        fraction_part == (((clk_rate % div) * 64) \div div) % 256
    IN << <<"uartcr", CR_DISABLE>>,
          <<"uartibrd", integer_part>>,
          <<"uartfbrd", fraction_part>>,
          <<"uartifls", IFLS_LEVEL>>,
          <<"uartimsc", IMSC_RX_TX>>,
          <<"uartlcrh", LCRH_8N1_FIFO>>,
          <<"uartcr", CR_ENABLE>> >>

RECURSIVE ApplyWrites(_, _)
ApplyWrites(r, ws) ==
    IF ws = <<>> THEN r
    ELSE ApplyWrites([r EXCEPT ![Head(ws)[1]] = Head(ws)[2]], Tail(ws))

RegNames == {"uartcr", "uartibrd", "uartfbrd", "uartifls", "uartimsc", "uartlcrh"}

----------------------------------------------------------------------------
(* Initial state: Uart::new has run (irq_conut = 0, empty waker slot), the *)
(* lock is free and holds None, the console may still hold earlier output  *)
(* in the transmit FIFO, and the control register is as the boot firmware  *)
(* left it.                                                                *)

Init ==
    /\ pc = [task |-> "start", other |-> "o_lock"]
    /\ inner = FALSE
    /\ guards = {}
    /\ uart_present = FALSE
    /\ irq_registered = FALSE
    /\ executor \in Executors
    /\ data = <<>>
    /\ index = 0
    /\ result = NoResult
    /\ waker = NoWaker
    /\ woken = FALSE
    /\ irq_conut = 0
    /\ irq_calls = 0
    /\ hpc = "idle"
    /\ txlevel \in 0..FifoCap
    /\ tx_overrun = FALSE
    /\ rxfifo = <<>>
    /\ rx_arrived = 0
    /\ irq_pending = FALSE
    /\ regs \in {[r \in RegNames |-> IF r = "uartcr" THEN c ELSE 0] : c \in {CR_DISABLE, CR_ENABLE}}
    /\ wlog = <<>>
    /\ init_args = <<0, 0>>
    /\ dr_writes = <<>>
    /\ icr_writes = <<>>
    /\ last_rx = NoReceive

\* the task runs only while the interrupt context is not on the CPU
TaskRuns == hpc = "idle"

hw_vars == <<txlevel, tx_overrun, rxfifo, rx_arrived, irq_pending>>

lock_vars == <<inner, guards>>

fut_vars == <<data, index, result>>

irq_vars == <<irq_conut, irq_calls, hpc, icr_writes>>

init_log == <<wlog, init_args>>

----------------------------------------------------------------------------
(* Mutex (tests/test.rs) *)

AfterLock(at) ==
    CASE at = "lock1" -> "store"
      [] at = "lock2" -> "locked"
      [] at = "lock3" -> "print"
      [] at = "o_lock" -> "o_held"

AfterDrop(at) ==
    CASE at = "drop1" -> "regirq"
      [] at = "ready" -> "lock3"
      [] at = "print" -> "done"
      [] at = "o_held" -> "o_lock"

LockPoints == {"lock1", "lock2", "lock3", "o_lock"}

DropPoints == {"drop1", "ready", "print", "o_held"}

\* inner.swap(true) returned true: the lock was already held
swap_was_held_always_free == FALSE

swap_was_held == inner

\* Mutex::lock: one iteration of the swap loop
lock(p) ==
    /\ pc[p] \in LockPoints
    /\ p = "task" => TaskRuns
    /\ inner' = TRUE
    /\ IF swap_was_held
         THEN UNCHANGED <<guards, pc>>
         ELSE /\ guards' = guards \cup {p}
              /\ pc' = [pc EXCEPT ![p] = AfterLock(pc[p])]
    /\ UNCHANGED <<uart_present, irq_registered, executor, fut_vars, waker,
                   woken, irq_vars, hw_vars, regs, init_log, dr_writes, last_rx>>

\* Mutex::unlock
unlock == inner' = FALSE

\* MutexGuard::drop at the end of the guard's scope
drop(p) ==
    /\ pc[p] \in DropPoints
    /\ p = "task" => TaskRuns
    /\ unlock
    /\ guards' = guards \ {p}
    /\ pc' = [pc EXCEPT ![p] = AfterDrop(pc[p])]
    /\ UNCHANGED <<uart_present, irq_registered, executor, fut_vars, waker,
                   woken, irq_vars, hw_vars, regs, init_log, dr_writes, last_rx>>

----------------------------------------------------------------------------
(* it_works: task context *)

\* Uart::init called with one of the argument pairs in Args
init_from(Args) ==
    /\ pc["task"] = "start"
    /\ TaskRuns
    /\ \E a \in Args :
          /\ init_args' = a
          /\ wlog' = InitWrites(a[1], a[2])
          /\ regs' = ApplyWrites(regs, InitWrites(a[1], a[2]))
    /\ pc' = [pc EXCEPT !["task"] = "lock1"]
    /\ UNCHANGED <<lock_vars, uart_present, irq_registered, executor, fut_vars,
                   waker, woken, irq_vars, hw_vars, dr_writes, last_rx>>

\* uart.init(..) as the test calls it
init == init_from(InitArgs)

\* Uart::init over the range of clocks and baud rates
init_div == init_from(DivArgs)

\* *pl011 = Some(uart)
store ==
    /\ pc["task"] = "store"
    /\ TaskRuns
    /\ uart_present' = TRUE
    /\ pc' = [pc EXCEPT !["task"] = "drop1"]
    /\ UNCHANGED <<lock_vars, irq_registered, executor, fut_vars, waker, woken,
                   irq_vars, hw_vars, regs, init_log, dr_writes, last_rx>>

\* IrqParam{..}.register_builder(..).register()
register_irq ==
    /\ pc["task"] = "regirq"
    /\ TaskRuns
    /\ irq_registered' = TRUE
    /\ pc' = [pc EXCEPT !["task"] = "lock2"]
    /\ UNCHANGED <<lock_vars, uart_present, executor, fut_vars, waker, woken,
                   irq_vars, hw_vars, regs, init_log, dr_writes, last_rx>>

\* the flag test of Uart::receive
receive_no_data_rxfe(fr) == BitSet(fr, RXFE_BIT)

receive_no_data(fr) == BitSet(fr, TXFF_BIT)

\* Uart::receive, called through the guard
receive ==
    /\ pc["task"] = "locked"
    /\ TaskRuns
    /\ IF receive_no_data(uartfr)
         THEN /\ last_rx' = [called |-> TRUE, read_dr |-> FALSE, val |-> 0]
              /\ UNCHANGED rxfifo
         ELSE IF rxfifo # <<>>
           THEN /\ last_rx' = [called |-> TRUE, read_dr |-> TRUE, val |-> Head(rxfifo)]
                /\ rxfifo' = Tail(rxfifo)
           ELSE /\ \E b \in ByteVals :
                     last_rx' = [called |-> TRUE, read_dr |-> TRUE, val |-> b]
                /\ UNCHANGED rxfifo
    /\ UNCHANGED <<pc, lock_vars, uart_present, irq_registered, executor,
                   fut_vars, waker, woken, irq_vars, txlevel, tx_overrun,
                   rx_arrived, irq_pending, regs, init_log, dr_writes>>

\* Uart::write: builds the WriteFuture (the byte returned by an earlier
\* receive is a temporary that no longer exists here)
write ==
    /\ pc["task"] = "locked"
    /\ TaskRuns
    /\ \E B \in Buffers : data' = B
    /\ index' = 0
    /\ last_rx' = NoReceive
    /\ pc' = [pc EXCEPT !["task"] = "check"]
    /\ UNCHANGED <<lock_vars, uart_present, irq_registered, executor, result,
                   waker, woken, irq_vars, hw_vars, regs, init_log, dr_writes>>

----------------------------------------------------------------------------
(* WriteFuture::poll, one step per access to shared state *)

\* completion test off by one
poll_finished_early(i, d) == i + 1 >= Len(d)

poll_finished_nonempty(i, d) == i >= Len(d) /\ Len(d) > 0

\* this.index >= this.data.len()
poll_finished(i, d) == i >= Len(d)

\* flag test inverted
poll_fifo_full_inverted(fr) == ~BitSet(fr, TXFF_BIT)

\* flag test on the transmit-FIFO-empty bit
poll_fifo_full_txfe(fr) == BitSet(fr, TXFE_BIT)

poll_fifo_full_rxff(fr) == BitSet(fr, RXFF_BIT)

\* uartfr.get() & (1 << 5) != 0
poll_fifo_full(fr) == BitSet(fr, TXFF_BIT)

poll_byte_first(d, i) == d[1]

\* this.data[this.index]  (Rust index i is position i + 1)
poll_byte(d, i) == d[i + 1]

poll_check ==
    /\ pc["task"] = "check"
    /\ TaskRuns
    /\ IF poll_finished(index, data)
         THEN /\ result' = index
              /\ pc' = [pc EXCEPT !["task"] = "ready"]
         ELSE /\ pc' = [pc EXCEPT !["task"] = "flag"]
              /\ UNCHANGED result
    /\ UNCHANGED <<lock_vars, uart_present, irq_registered, executor, data,
                   index, waker, woken, irq_vars, hw_vars, regs, init_log,
                   dr_writes, last_rx>>

poll_flag ==
    /\ pc["task"] = "flag"
    /\ TaskRuns
    /\ pc' = [pc EXCEPT !["task"] =
                 IF poll_fifo_full(uartfr) THEN "register" ELSE "write_dr"]
    /\ UNCHANGED <<lock_vars, uart_present, irq_registered, executor, fut_vars,
                   waker, woken, irq_vars, hw_vars, regs, init_log, dr_writes,
                   last_rx>>

\* waker.register(cx.waker()); return Poll::Pending
poll_register ==
    /\ pc["task"] = "register"
    /\ TaskRuns
    /\ waker' = waker_after_register(waker, TaskWaker)
    /\ pc' = [pc EXCEPT !["task"] = "pending"]
    /\ UNCHANGED <<lock_vars, uart_present, irq_registered, executor, fut_vars,
                   woken, irq_vars, hw_vars, regs, init_log, dr_writes, last_rx>>

\* uartdr.set(data as u32); this.index += 1
poll_write ==
    /\ pc["task"] = "write_dr"
    /\ TaskRuns
    /\ dr_writes' = Append(dr_writes, poll_byte(data, index))
    /\ IF txlevel < FifoCap
         THEN txlevel' = txlevel + 1 /\ UNCHANGED tx_overrun
         ELSE tx_overrun' = TRUE /\ UNCHANGED txlevel
    /\ index' = index + 1
    /\ pc' = [pc EXCEPT !["task"] = "check"]
    /\ UNCHANGED <<lock_vars, uart_present, irq_registered, executor, data,
                   result, waker, woken, irq_vars, rxfifo, rx_arrived,
                   irq_pending, regs, init_log, last_rx>>

\* the executor polls the pending future again
repoll ==
    /\ pc["task"] = "pending"
    /\ TaskRuns
    /\ executor = "wake" => woken
    /\ woken' = FALSE
    /\ pc' = [pc EXCEPT !["task"] = "check"]
    /\ UNCHANGED <<lock_vars, uart_present, irq_registered, executor, fut_vars,
                   waker, irq_vars, hw_vars, regs, init_log, dr_writes, last_rx>>

----------------------------------------------------------------------------
(* Interrupt context *)

\* the platform dispatcher enters the registered closure
irq_dispatch ==
    /\ hpc = "idle"
    /\ irq_registered
    /\ irq_pending
    /\ hpc' = "entry"
    /\ UNCHANGED <<pc, lock_vars, uart_present, irq_registered, executor,
                   fut_vars, waker, woken, irq_conut, irq_calls, icr_writes,
                   hw_vars, regs, init_log, dr_writes, last_rx>>

\* what the handler would do if it took the lock like a task
force_use_locking == inner = FALSE /\ inner' = TRUE

\* Mutex::force_use: hands out the data without looking at the flag
force_use == inner' = inner

irq_conut_lost(c) == c

irq_conut_inc(c) == c + 1

\* UART.force_use().as_mut().unwrap(); self.irq_conut += 1
handle_interrupt_count ==
    /\ hpc = "entry"
    /\ force_use
    /\ uart_present
    /\ irq_calls' = irq_calls + 1
    /\ irq_conut' = irq_conut_inc(irq_conut)
    /\ hpc' = "check"
    /\ UNCHANGED <<pc, guards, uart_present, irq_registered, executor,
                   fut_vars, waker, woken, icr_writes, hw_vars, regs, init_log,
                   dr_writes, last_rx>>

\* uartfr.is_set(FLAG::RXFE)
wake_condition(fr) == BitSet(fr, RXFE_BIT)

\* the clear placed before the wake
handler_order_clear_first == <<"clear", "wake">>

\* order of the two statements in the unsafe block of handle_interrupt
handler_order == <<"wake", "clear">>

\* if uartfr.is_set(FLAG::RXFE) { self.waker.wake() }
signal_waker ==
    /\ IF wake_condition(uartfr) /\ waker # NoWaker
         THEN waker' = waker_after_wake(waker) /\ woken' = TRUE
         ELSE UNCHANGED <<waker, woken>>
    /\ UNCHANGED <<icr_writes, irq_pending>>

\* uarticr.set(u32::MAX)
clear_interrupts ==
    /\ icr_writes' = Append(icr_writes, U32_MAX)
    /\ irq_pending' = FALSE
    /\ UNCHANGED <<waker, woken>>

\* first statement of the unsafe block
handle_interrupt_wake ==
    /\ hpc = "check"
    /\ IF handler_order[1] = "wake" THEN signal_waker ELSE clear_interrupts
    /\ hpc' = "clear"
    /\ UNCHANGED <<pc, lock_vars, uart_present, irq_registered, executor,
                   fut_vars, irq_conut, irq_calls, txlevel, tx_overrun,
                   rxfifo, rx_arrived, regs, init_log, dr_writes, last_rx>>

\* a handler that also masks the transmit interrupt source
handle_interrupt_clear_masks_tx ==
    /\ hpc = "clear"
    /\ icr_writes' = Append(icr_writes, U32_MAX)
    /\ irq_pending' = FALSE
    /\ regs' = [regs EXCEPT !["uartimsc"] = Pow2(RXIM_BIT)]
    /\ hpc' = "idle"
    /\ UNCHANGED <<pc, lock_vars, uart_present, irq_registered, executor,
                   fut_vars, waker, woken, irq_conut, irq_calls, txlevel,
                   tx_overrun, rxfifo, rx_arrived, init_log, dr_writes,
                   last_rx>>

\* the clear moved inside the wake branch
handle_interrupt_clear_in_branch ==
    /\ hpc = "clear"
    /\ icr_writes' = IF wake_condition(uartfr)
                        THEN Append(icr_writes, U32_MAX) ELSE icr_writes
    /\ irq_pending' = (irq_pending /\ ~wake_condition(uartfr))
    /\ hpc' = "idle"
    /\ UNCHANGED <<pc, lock_vars, uart_present, irq_registered, executor,
                   fut_vars, waker, woken, irq_conut, irq_calls, txlevel,
                   tx_overrun, rxfifo, rx_arrived, regs, init_log, dr_writes,
                   last_rx>>

\* second statement of the unsafe block; return
handle_interrupt_clear ==
    /\ hpc = "clear"
    /\ IF handler_order[2] = "clear" THEN clear_interrupts ELSE signal_waker
    /\ hpc' = "idle"
    /\ UNCHANGED <<pc, lock_vars, uart_present, irq_registered, executor,
                   fut_vars, irq_conut, irq_calls, txlevel,
                   tx_overrun, rxfifo, rx_arrived, regs, init_log, dr_writes,
                   last_rx>>

HandlerStep ==
    handle_interrupt_count \/ handle_interrupt_wake \/ handle_interrupt_clear

----------------------------------------------------------------------------
(* Hardware *)

\* the transmitter shifts one byte out of the FIFO
tx_drain ==
    /\ txlevel > 0
    /\ txlevel' = txlevel - 1
    /\ irq_pending' = (irq_pending \/ BitSet(regs["uartimsc"], TXIM_BIT))
    /\ UNCHANGED <<pc, lock_vars, uart_present, irq_registered, executor,
                   fut_vars, waker, woken, irq_vars, tx_overrun, rxfifo,
                   rx_arrived, regs, init_log, dr_writes, last_rx>>

\* a byte arrives on the line
rx_arrive ==
    /\ rx_arrived < MaxRx
    /\ rx_arrived' = rx_arrived + 1
    /\ rxfifo' = IF Len(rxfifo) < FifoCap
                    THEN Append(rxfifo, RxStream(rx_arrived + 1)) ELSE rxfifo
    /\ irq_pending' = (irq_pending \/ BitSet(regs["uartimsc"], RXIM_BIT))
    /\ UNCHANGED <<pc, lock_vars, uart_present, irq_registered, executor,
                   fut_vars, waker, woken, irq_vars, txlevel, tx_overrun,
                   regs, init_log, dr_writes, last_rx>>

----------------------------------------------------------------------------

Next ==
    \/ \E p \in Lockers : lock(p)
    \/ \E p \in Lockers : drop(p)
    \/ init
    \/ store
    \/ register_irq
    \/ receive
    \/ write
    \/ poll_check
    \/ poll_flag
    \/ poll_register
    \/ poll_write
    \/ repoll
    \/ irq_dispatch
    \/ handle_interrupt_count
    \/ handle_interrupt_wake
    \/ handle_interrupt_clear
    \/ tx_drain
    \/ rx_arrive

Spec == Init /\ [][Next]_vars

\* init alone, over the range of clocks and baud rates
NextDiv == init_div

SpecDiv == Init /\ [][NextDiv]_vars

----------------------------------------------------------------------------
(* Properties *)

TXFF == BitSet(uartfr, TXFF_BIT)

\* C1: when the transmit of B has returned Ready(n), n = |B| and the values
\* written to the data register are exactly B, in order.
C1_ExactTransmit ==
    result # NoResult => (result = Len(data) /\ dr_writes = data)

C1_Witness ==
    /\ result = MaxLen
    /\ Len(data) = MaxLen
    /\ data[1] # data[2]
    /\ waker = TaskWaker
    /\ icr_writes # <<>>

\* C2: a transmit that returned Pending under a wake-driven executor is never
\* left suspended with the FIFO drained and no wake-up delivered, pending or
\* being handled (no missed wake-up).
C2_NoMissedWakeup ==
    ~ ( /\ executor = "wake"
        /\ pc["task"] = "pending"
        /\ ~woken
        /\ hpc = "idle"
        /\ ~irq_pending
        /\ txlevel = 0 )

\* C3: while the transmit is suspended with its callback registered, every
\* handler invocation invokes the callback, whatever the flags read.
C3_AnyInterruptWakes ==
    [][ ( /\ hpc = "check" /\ hpc' = "clear"
          /\ pc["task"] = "pending" /\ waker = TaskWaker )
        => (woken' /\ waker' = NoWaker) ]_vars

\* C4: a poll of an incomplete transmit that reads the transmit-FIFO-full flag
\* as set registers the callback and returns Pending, with no data-register
\* write and no cursor advance after that read.
C4_FullSuspends ==
    [][ /\ ( pc["task"] = "flag" /\ pc'["task"] # "flag" /\ TXFF )
           => ( /\ index < Len(data)
                /\ pc'["task"] = "register"
                /\ UNCHANGED <<dr_writes, index, txlevel>> )
        /\ pc["task"] = "register"
           => ( /\ UNCHANGED <<dr_writes, index>>
                /\ pc'["task"] \in {"register", "pending"}
                /\ pc'["task"] = "pending" => waker' = TaskWaker )
        /\ pc["task"] = "pending"
           => UNCHANGED <<dr_writes, index>> ]_vars

C4_Witness ==
    /\ pc["task"] = "pending"
    /\ waker = TaskWaker
    /\ index < Len(data)
    /\ TXFF

\* C5: the first poll of a zero-length transmit returns Ready(0) in every
\* hardware state, writes no register and registers no callback.
C5_EmptyCompletes ==
    [][ ( pc["task"] = "check" /\ data = <<>> /\ pc'["task"] # "check" )
        => ( /\ pc'["task"] = "ready"
             /\ result' = 0
             /\ UNCHANGED <<regs, dr_writes, icr_writes, txlevel, waker, woken>> ) ]_vars

C5_Witness ==
    /\ pc["task"] = "ready"
    /\ data = <<>>
    /\ result = 0
    /\ TXFF
    /\ waker = NoWaker
    /\ dr_writes = <<>>

\* C6: the interrupt counter equals the number of handler invocations, and
\* no step outside the handler changes it.
C6_CounterExact ==
    /\ [](irq_conut = irq_calls)
    /\ [][ (hpc' = hpc) => irq_conut' = irq_conut ]_vars

C6_Witness ==
    /\ irq_conut >= 2
    /\ pc["task"] = "done"
    /\ rx_arrived > 0
    /\ rxfifo = <<>>
    /\ dr_writes # <<>>

\* C7: every completed handler invocation has written all-ones to the
\* interrupt-clear register, and with no callback registered the handler
\* drops the signal and goes on to the clear.
C7_AlwaysClears ==
    /\ [] ( /\ \A i \in 1..Len(icr_writes) : icr_writes[i] = U32_MAX
            /\ Len(icr_writes) =
                 IF hpc \in {"check", "clear"} THEN irq_calls - 1 ELSE irq_calls )
    /\ [][ ( hpc = "check" /\ waker = NoWaker /\ hpc' # hpc )
           => ( hpc' = "clear" /\ waker' = NoWaker /\ woken' = woken ) ]_vars

C7_Witness ==
    /\ pc["task"] = "locked"
    /\ hpc = "idle"
    /\ Len(icr_writes) >= 1
    /\ rxfifo # <<>>

\* C8: an invoked handler can always take its next step, also while the task
\* it preempted holds the lock, and no handler step touches the lock.
C8_HandlerNeverBlocks ==
    /\ [] ( hpc # "idle" => ENABLED HandlerStep )
    /\ [][ (hpc' # hpc) => UNCHANGED <<inner, guards>> ]_vars

C8_Witness ==
    /\ hpc = "entry"
    /\ inner
    /\ "task" \in guards
    /\ pc["task"] = "pending"

\* C9: at most one guard obtained through lock() is live, the flag is set
\* exactly while a guard is live, a guard is handed out only by a step that
\* turns the flag from false to true, and dropping the guard clears the flag.
C9_MutualExclusion ==
    /\ [] ( Cardinality(guards) <= 1 /\ (inner <=> guards # {}) )
    /\ [][ /\ (guards' # guards /\ guards \subseteq guards')
              => (~inner /\ inner' /\ guards = {})
           /\ (guards' # guards /\ guards' \subseteq guards)
              => ~inner' ]_vars

C9_Witness ==
    /\ guards = {"other"}
    /\ pc["task"] = "lock3"
    /\ inner

\* C10: in init the first write disables the peripheral, the last write
\* enables it with transmit and receive, and the divisor and FIFO level
\* writes all lie strictly in between, while the control register is 0.
C10_InitOrder ==
    wlog # <<>> =>
      /\ wlog[1] = <<"uartcr", 0>>
      /\ wlog[Len(wlog)][1] = "uartcr"
      /\ BitSet(wlog[Len(wlog)][2], 0)
      /\ BitSet(wlog[Len(wlog)][2], 8)
      /\ BitSet(wlog[Len(wlog)][2], 9)
      /\ \A r \in {"uartibrd", "uartfbrd", "uartifls"} :
            \E i \in 1..Len(wlog) : wlog[i][1] = r
      /\ \A i \in 1..Len(wlog) :
            wlog[i][1] \in {"uartibrd", "uartfbrd", "uartifls"} =>
              /\ 1 < i /\ i < Len(wlog)
              /\ \A j \in 1..(i - 1) : wlog[j][1] = "uartcr" => wlog[j][2] = 0

C10_Witness ==
    /\ wlog # <<>>
    /\ regs["uartcr"] = CR_ENABLE
    /\ regs["uartifls"] = IFLS_LEVEL
    /\ pc["task"] = "lock1"

\* x / d rounded to the nearest integer (halves up), for 0 <= x, 0 < d
RoundDiv(x, d) == (x \div d) + (IF (x % d) >= d - (x % d) THEN 1 ELSE 0)

WrittenTo(r) == {wlog[i][2] : i \in {j \in 1..Len(wlog) : wlog[j][1] = r}}

\* C11: init writes clk div (16 baud) to the integer divisor register and
\* ((clk mod (16 baud)) * 64) / (16 baud) rounded to the nearest integer, in
\* 6 bits, to the fractional divisor register; 100 MHz at 115200 gives 54.
C11_DivisorFormula ==
    wlog # <<>> =>
      LET clk == init_args[1]
          div == 16 * init_args[2]
      IN /\ WrittenTo("uartibrd") = {clk \div div}
         /\ WrittenTo("uartfbrd") = {RoundDiv((clk % div) * 64, div) % 64}
         /\ init_args = <<100000000, 115200>> => WrittenTo("uartibrd") = {54}

\* a step of the task that is a call of receive
ReceiveStep ==
    /\ pc["task"] = "locked" /\ pc'["task"] = "locked"
    /\ rx_arrived' = rx_arrived
    /\ last_rx'.called
    /\ (last_rx' # last_rx \/ rxfifo' # rxfifo)

\* C12: receive decides on the receive-FIFO-empty flag: with the receive FIFO
\* empty it returns 0 without reading the data register, otherwise it reads
\* the data register once and returns the oldest byte, whatever the transmit
\* flags are.
C12_ReceiveOnRxfe ==
    [][ ReceiveStep =>
          IF rxfifo = <<>>
            THEN /\ ~last_rx'.read_dr
                 /\ last_rx'.val = 0
                 /\ rxfifo' = rxfifo
            ELSE /\ last_rx'.read_dr
                 /\ last_rx'.val = Head(rxfifo)
                 /\ rxfifo' = Tail(rxfifo) ]_vars

\* the handler takes the registered callback out of the slot and invokes it
SignalStep == waker # NoWaker /\ waker' = NoWaker

\* C13: a handler invocation signals the callback before its write to the
\* interrupt-clear register, and the step that clears, and everything after
\* it in the handler, signals nothing.
C13_SignalBeforeClear ==
    [][ /\ SignalStep
           => ( /\ hpc = "check" /\ hpc' = "clear"
                /\ icr_writes' = icr_writes
                /\ Len(icr_writes) = irq_calls - 1 )
        /\ icr_writes' # icr_writes
           => ( /\ hpc = "clear" /\ hpc' = "idle"
                /\ Len(icr_writes') = irq_calls
                /\ UNCHANGED <<waker, woken>> ) ]_vars

C13_Witness ==
    /\ hpc = "clear"
    /\ woken
    /\ waker = NoWaker
    /\ pc["task"] = "pending"
    /\ Len(icr_writes) = irq_calls - 1

PollPoints == {"check", "flag", "register", "write_dr", "pending"}

\* C14: the cursor stays within 0..length, starts at 0, never decreases,
\* advances by exactly 1 with each data-register write and not otherwise, and
\* a poll returns Ready exactly when the cursor equals the length.
C14_CursorInvariant ==
    /\ [] ( /\ 0 <= index /\ index <= Len(data)
            /\ Len(dr_writes) = index
            /\ pc["task"] = "ready" => (index = Len(data) /\ result = index) )
    /\ [][ /\ index' >= index
           /\ (pc["task"] = "locked" /\ pc'["task"] = "check") => index' = 0
           /\ dr_writes' # dr_writes
              => (index' = index + 1 /\ Len(dr_writes') = Len(dr_writes) + 1)
           /\ index' # index => dr_writes' # dr_writes
           /\ (pc["task"] = "check" /\ pc'["task"] # "check")
              => (pc'["task"] = "ready" <=> index = Len(data)) ]_vars

C14_Witness ==
    /\ pc["task"] = "check"
    /\ index = MaxLen - 1
    /\ Len(data) = MaxLen
    /\ woken
    /\ dr_writes # <<>>

\* C15: a poll returns Pending only after reading, in that poll, the
\* transmit-FIFO-full flag as set with cursor < length; a read of the flag as
\* clear is followed by the write of the next byte and another pass of the
\* loop, and nothing but the poll's register step suspends the task.
C15_PendingOnlyWhenFull ==
    [][ /\ (pc'["task"] = "pending" /\ pc["task"] # "pending")
           => (pc["task"] = "register" /\ index < Len(data))
        /\ (pc'["task"] = "register" /\ pc["task"] # "register")
           => (pc["task"] = "flag" /\ TXFF /\ index < Len(data))
        /\ (pc["task"] = "flag" /\ pc'["task"] # "flag" /\ ~TXFF)
           => pc'["task"] = "write_dr"
        /\ (pc["task"] = "write_dr" /\ pc'["task"] # "write_dr")
           => (pc'["task"] = "check" /\ dr_writes' # dr_writes)
        /\ (pc["task"] = "check" /\ pc'["task"] # "check" /\ index < Len(data))
           => pc'["task"] = "flag" ]_vars

\* the first poll wrote as many bytes as the FIFO took and then suspended
C15_Witness ==
    /\ executor = "wake"
    /\ irq_calls = 0
    /\ pc["task"] = "pending"
    /\ index = FifoCap
    /\ index < Len(data)

CompletePoints == {"ready", "lock3", "print", "done"}

\* C16: once the transmit is Complete the slot holds no registration.
C16_SlotEmptyAfterComplete ==
    pc["task"] \in CompletePoints => waker = NoWaker

WritePos(r) == {i \in 1..Len(wlog) : wlog[i][1] = r}

\* C17 as amended: init enables the receive and transmit interrupt sources in
\* the mask register first, then programs line control (8N1, FIFOs enabled),
\* and writes the control-register enable only after both.
C17_MaskThenLineThenEnable ==
    wlog # <<>> =>
      /\ WrittenTo("uartlcrh") = {LCRH_8N1_FIFO}
      /\ \A v \in WrittenTo("uartimsc") : BitSet(v, RXIM_BIT) /\ BitSet(v, TXIM_BIT)
      /\ \E m \in WritePos("uartimsc") : \E l \in WritePos("uartlcrh") :
         \E e \in WritePos("uartcr") :
            /\ m < l /\ l < e
            /\ BitSet(wlog[e][2], 0)
            /\ \A c \in WritePos("uartcr") : BitSet(wlog[c][2], 0) => c >= e
            /\ \A k \in WritePos("uartimsc") \cup WritePos("uartlcrh") : k < e
            /\ WritePos("uartimsc") = {m} /\ WritePos("uartlcrh") = {l}

\* C17: the write order of init is line control, then interrupt mask, then
\* control-register enable.
C17_LineThenMaskThenEnable ==
    wlog # <<>> =>
      \E l \in WritePos("uartlcrh") : \E m \in WritePos("uartimsc") :
      \E e \in WritePos("uartcr") :
         l < m /\ m < e /\ BitSet(wlog[e][2], 0)

C17_Witness ==
    /\ wlog # <<>>
    /\ regs["uartlcrh"] = LCRH_8N1_FIFO
    /\ regs["uartimsc"] = IMSC_RX_TX
    /\ BitSet(regs["uartcr"], 0)
    /\ pc["task"] = "store"

HandlerMoves == hpc # "idle" /\ hpc' # hpc

\* a step of WriteFuture::poll
PollMoves == pc["task"] \in PollPoints \ {"pending"} /\ pc'["task"] # pc["task"]

\* C19: the handler changes only the counter, the slot and the interrupt-clear
\* register, leaving data register, cursor, buffer, lock flag and the
\* configuration registers alone; a poll leaves the counter and the
\* interrupt-clear register alone.
C19_Frames ==
    [][ /\ HandlerMoves
           => UNCHANGED <<dr_writes, txlevel, index, data, result, inner,
                          guards, regs, wlog, pc, rxfifo>>
        /\ PollMoves
           => UNCHANGED <<irq_conut, irq_calls, icr_writes, irq_pending>> ]_vars

C19_Witness ==
    /\ hpc = "idle"
    /\ irq_conut >= 1
    /\ Len(icr_writes) = irq_conut
    /\ pc["task"] = "write_dr"
    /\ index >= 1
    /\ inner

\* C20: the transmit FIFO never overflows: a data-register write happens only
\* right after the same poll read the full flag as clear, nothing adds bytes
\* in between, and occupancy never exceeds the capacity.
C20_NoTxOverflow ==
    /\ [] ( /\ ~tx_overrun
            /\ txlevel <= FifoCap
            /\ pc["task"] = "write_dr" => txlevel < FifoCap )
    /\ [][ /\ (pc'["task"] = "write_dr" /\ pc["task"] # "write_dr")
              => (pc["task"] = "flag" /\ ~TXFF)
           /\ dr_writes' # dr_writes
              => (pc["task"] = "write_dr" /\ txlevel < FifoCap /\ txlevel' = txlevel + 1)
           /\ txlevel' > txlevel => dr_writes' # dr_writes ]_vars

\* the last free slot is filled after a handler ran between the flag read and
\* the write
C20_Witness ==
    /\ txlevel = FifoCap
    /\ pc["task"] = "check"
    /\ index >= 2
    /\ icr_writes # <<>>
    /\ ~tx_overrun

====
